---------------------------- MODULE Spec2Model ----------------------------
(***************************************************************************)
(* The three signing scripts of SecurityKit-Android:                       *)
(*   scripts/sign_config_hmac.py          (script = "config")              *)
(*   scripts/generate_secure_signature.py (script = "secure")              *)
(*   scripts/generate_apk_hmac.py         (script = "apk")                 *)
(*                                                                         *)
(* One run of one script is one behaviour: Init draws the script, its      *)
(* command line and the files it will meet; every action is one step of    *)
(* that script's main().                                                   *)
(*                                                                         *)
(* Bytes are integers, byte strings are sequences of them.  SHA-256 and    *)
(* HMAC-SHA256 are ideal: a digest is the term "sha256 of these bytes", a  *)
(* tag is the term "hmac of this key and this message", and two digests    *)
(* (tags) are equal exactly when their inputs are.  The conversions that   *)
(* follow a digest (hex(), encode('utf-8')) are recorded in the term's     *)
(* form, so that a digest, its hex text and the bytes of that text are     *)
(* three different values.                                                 *)
(*                                                                         *)
(* A file is missing, unreadable or readable when it is opened; a read of  *)
(* an open file does not fail, and the signature destination can always be *)
(* written.                                                                *)
(***************************************************************************)
EXTENDS Integers, Sequences, FiniteSets

VARIABLES
    script,     \* which script runs: "config", "secure" or "apk"
    pc,         \* position in main()
    exitCode,   \* -1 while running, then the process's exit status
    args,       \* command line and environment of the run (never changes)
    artifact,   \* the artifact file: [state, data]
    outFile,    \* the signature destination: [state, fmt, sig, hash]
    console,    \* what was printed so far (stdout and stderr), in order
    key,        \* the key variable of main()
    raw,        \* the bytes read from the configuration file
    sig,        \* the computed tag, and whether one was computed
    hasher,     \* calculate_apk_hash: [pos, absorbed] of the open file
    hashes,     \* apk: the first and the current binding of apk_hash
    cmps,       \* secure: the tag comparisons made so far
    mods,       \* apk: changes another process made to the package file
    readSize    \* the size passed to f.read() in calculate_apk_hash

vars == <<script, pc, exitCode, args, artifact, outFile, console, key, raw,
          sig, hasher, hashes, cmps, mods, readSize>>

---------------------------------------------------------------------------
(* Bounds of the model *)

MaxKeyLen == 2      \* characters of a key given literally or in the environment
MaxKeyFileLen == 3  \* bytes of a key file
MaxPad == 1         \* bytes before / after the middle part of a configuration
MaxApkLen == 2      \* bytes of a package file in a whole run of the apk script
MaxNonce == 2       \* distinct outcomes of secrets.token_hex / time.time
MaxMods == 1        \* changes another process makes to the package file
MaxChunks == 2      \* largest file of the digest specification, in reads
MaxSmallRead == 3   \* read sizes tried besides the program's own
MaxSmallLen == 5    \* file lengths tried with the small read sizes
MaxSeed == 1        \* contents tried for each of those lengths

(* Program constants *)

READ_SIZE == 8192           \* f.read(8192)
DIGEST_SIZE == 32           \* bytes of a SHA-256 digest
KEY_PREVIEW_LEN == 16       \* key.hex()[:16]
SIG_PREVIEW_LEN == 32       \* signature[:32] (generate_secure_signature)
APK_PREVIEW_LEN == 16       \* apk_hash[:16], hmac_signature[:16]

Min(a, b) == IF a < b THEN a ELSE b

---------------------------------------------------------------------------
(* Values: byte strings and what the hash functions make of them *)

\* The bytes b themselves.
Raw(b) == [data |-> b, form |-> <<>>]

\* No value yet (a variable of main() that is not bound).
NoVal == [data |-> <<>>, form |-> <<"unbound">>]

\* hashlib.sha256(v).digest(): the digest of the bytes v.
Sha256(v) == [v EXCEPT !.form = Append(@, "sha256")]

\* bytes.hex() / hexdigest(): the lowercase hex text of the bytes v.
Hex(v) == [v EXCEPT !.form = Append(@, "hex")]

\* str.encode('utf-8') of a hex text: its characters as bytes.
EncodeText(v) == [v EXCEPT !.form = Append(@, "utf8")]

\* The number of bytes (characters) of a value.
RECURSIVE FormLen(_, _)
FormLen(n, form) ==
    IF form = <<>> THEN n
    ELSE LET f == Head(form) IN
         FormLen(IF f = "sha256" THEN DIGEST_SIZE
                 ELSE IF f = "hex" THEN 2 * n
                 ELSE n, Tail(form))

ValLen(v) == FormLen(Len(v.data), v.form)

\* hmac.new(key, msg, hashlib.sha256): the tag of msg under key.
HmacSha256(k, m) == [key |-> k, msg |-> m]

NoTag == [key |-> NoVal, msg |-> NoVal]

\* str.encode("utf-8") of a string given as its code points (below 0x800).
RECURSIVE Utf8Encode(_)
Utf8Encode(s) ==
    IF s = <<>> THEN <<>>
    ELSE LET c == Head(s) IN
         (IF c < 128 THEN <<c>> ELSE <<192 + (c \div 64), 128 + (c % 64)>>)
         \o Utf8Encode(Tail(s))

---------------------------------------------------------------------------
(* Texts: what can be printed or written *)

\* A constant text, a path, a number: nothing of a key, digest or tag.
Lit == [src |-> "lit", val |-> NoVal, tag |-> NoTag, len |-> 0]

\* The text of a value (a hex string).
ValText(v) == [src |-> "val", val |-> v, tag |-> NoTag, len |-> ValLen(v)]

\* hmac.hexdigest(): the hex text of a tag.
TagText(t) == [src |-> "tag", val |-> NoVal, tag |-> t, len |-> 2 * DIGEST_SIZE]

\* text[:n]
Slice(t, n) == [t EXCEPT !.len = Min(n, @)]

Line(label, text) == [label |-> label, text |-> text]

---------------------------------------------------------------------------
(* Files *)

FileStates == {"missing", "unreadable", "ok"}

NoFile == [state |-> "missing", data |-> <<>>]

Absent == [state |-> "absent", fmt |-> "none", sig |-> Lit, hash |-> Lit]
Old == [state |-> "old", fmt |-> "none", sig |-> Lit, hash |-> Lit]

\* Sequences over S of length at most n.
SeqsUpTo(S, n) == UNION {[1..k -> S] : k \in 0..n}

---------------------------------------------------------------------------
(* scripts/sign_config_hmac.py *)

\* The bytes that bytes.strip() removes.
Whitespace == {9, 10, 11, 12, 13, 32}

RECURSIVE LStrip(_)
LStrip(b) == IF b # <<>> /\ Head(b) \in Whitespace THEN LStrip(Tail(b)) ELSE b

RECURSIVE RStrip(_)
RStrip(b) ==
    IF b # <<>> /\ b[Len(b)] \in Whitespace
    THEN RStrip(SubSeq(b, 1, Len(b) - 1)) ELSE b

\* Mutant of Strip: bytes.rstrip(), the leading whitespace kept.
Strip_trailing_only(b) == RStrip(b)

\* bytes.strip(): whitespace removed at both ends.
Strip(b) == RStrip(LStrip(b))

hmac_sha256_hex(data, k) == HmacSha256(k, Raw(data))

KeyChars == {107, 233}                  \* 'k', and a two-byte character
KeyFileBytes == {107, 32, 10}           \* 'k', space, newline

ConfigArgs ==
    [argc : {0}, outJson : {FALSE},
     keySrc : {"literal"}, keyArg : SeqsUpTo(KeyChars, MaxKeyLen),
     envSet : {FALSE}, envVal : {<<>>}, keyFile : {NoFile},
     outArg : {"none", "empty", "path"}]
    \cup
    [argc : {0}, outJson : {FALSE},
     keySrc : {"env"}, keyArg : {<<>>},
     envSet : {TRUE}, envVal : SeqsUpTo(KeyChars, MaxKeyLen), keyFile : {NoFile},
     outArg : {"none", "path"}]
    \cup
    [argc : {0}, outJson : {FALSE},
     keySrc : {"env"}, keyArg : {<<>>},
     envSet : {FALSE}, envVal : {<<>>}, keyFile : {NoFile},
     outArg : {"none", "path"}]
    \cup
    [argc : {0}, outJson : {FALSE},
     keySrc : {"file"}, keyArg : {<<>>},
     envSet : {FALSE}, envVal : {<<>>},
     keyFile : {NoFile, [state |-> "unreadable", data |-> <<>>]}
               \cup [state : {"ok"}, data : SeqsUpTo(KeyFileBytes, MaxKeyFileLen)],
     outArg : {"none", "path"}]

\* Mutant of NotVal: only an unset variable is refused (`val is None`).
NotVal_only_unset(isSet, val) == ~isSet

\* line 42, `not val` of val = os.environ.get(name): None or the empty string.
NotVal(isSet, val) == ~isSet \/ val = <<>>

\* An uncaught exception: the traceback on stderr, exit status 1.
Uncaught(label) ==
    /\ console' = Append(console, Line(label, Lit))
    /\ exitCode' = 1
    /\ pc' = "done"

\* main, "Load key": lines 37-48.
ConfigLoadKeyMissingEnv ==
    /\ console' = Append(console, Line("env_missing", Lit))
    /\ exitCode' = 2
    /\ pc' = "done"
    /\ UNCHANGED key

ConfigLoadKeyFromFile ==
    IF args.keyFile.state # "ok"
    THEN Uncaught("key_error") /\ UNCHANGED key
    ELSE /\ key' = Raw(Strip(args.keyFile.data))
         /\ pc' = "load_config"
         /\ UNCHANGED <<console, exitCode>>

ConfigLoadKey ==
    /\ script = "config" /\ pc = "load_key"
    /\ IF args.keySrc = "literal"
       THEN /\ key' = Raw(Utf8Encode(args.keyArg))
            /\ pc' = "load_config"
            /\ UNCHANGED <<console, exitCode>>
       ELSE IF args.keySrc = "env"
       THEN IF NotVal(args.envSet, args.envVal)
            THEN ConfigLoadKeyMissingEnv
            ELSE /\ key' = Raw(Utf8Encode(args.envVal))
                 /\ pc' = "load_config"
                 /\ UNCHANGED <<console, exitCode>>
       ELSE ConfigLoadKeyFromFile
    /\ UNCHANGED <<script, args, artifact, outFile, raw, sig, hasher, hashes,
                   cmps, mods, readSize>>

\* main, "Load config RAW": lines 50-52.
ConfigLoadConfig ==
    /\ script = "config" /\ pc = "load_config"
    /\ IF artifact.state # "ok"
       THEN Uncaught("artifact_error") /\ UNCHANGED raw
       ELSE /\ raw' = artifact.data
            /\ pc' = "sign"
            /\ UNCHANGED <<console, exitCode>>
    /\ UNCHANGED <<script, args, artifact, outFile, key, sig, hasher, hashes,
                   cmps, mods, readSize>>

\* main, line 54.
ConfigSign ==
    /\ script = "config" /\ pc = "sign"
    /\ sig' = [done |-> TRUE, tag |-> hmac_sha256_hex(raw, key)]
    /\ pc' = "write"
    /\ UNCHANGED <<script, exitCode, args, artifact, outFile, console, key, raw,
                   hasher, hashes, cmps, mods, readSize>>

\* main, lines 56-61.
ConfigWrite ==
    /\ script = "config" /\ pc = "write"
    /\ IF args.outArg = "path"
       THEN /\ outFile' = [state |-> "written", fmt |-> "bare",
                           sig |-> TagText(sig.tag), hash |-> Lit]
            /\ console' = Append(console, Line("out_path", Lit))
       ELSE /\ console' = Append(console, Line("signature", TagText(sig.tag)))
            /\ UNCHANGED outFile
    /\ exitCode' = 0
    /\ pc' = "done"
    /\ UNCHANGED <<script, args, artifact, key, raw, sig, hasher, hashes,
                   cmps, mods, readSize>>

---------------------------------------------------------------------------
(* Configuration files *)

ROOT_TRUE ==
    <<34, 114, 111, 111, 116, 68, 101, 116, 101, 99, 116, 105, 111, 110, 34,
      58, 32, 116, 114, 117, 101>>
ROOT_FALSE ==
    <<34, 114, 111, 111, 116, 68, 101, 116, 101, 99, 116, 105, 111, 110, 34,
      58, 32, 102, 97, 108, 115, 101>>

PadBytes == {123, 10}       \* '{' and newline

ConfigMiddles ==
    {<<>>, ROOT_TRUE, ROOT_FALSE, SubSeq(ROOT_TRUE, 1, Len(ROOT_TRUE) - 1),
     ROOT_TRUE \o ROOT_TRUE}

ConfigData ==
    {pre \o mid \o post : pre \in SeqsUpTo(PadBytes, MaxPad),
                          mid \in ConfigMiddles,
                          post \in SeqsUpTo(PadBytes, MaxPad)}

ConfigFiles ==
    {NoFile, [state |-> "unreadable", data |-> <<>>]}
    \cup [state : {"ok"}, data : ConfigData]

---------------------------------------------------------------------------
(* scripts/generate_secure_signature.py *)

device_id ==
    <<116, 101, 115, 116, 95, 100, 101, 118, 105, 99, 101, 95, 49, 50, 51,
      52, 53>>
package_name ==
    <<99, 111, 109, 46, 109, 105, 97, 97, 100, 114, 97, 106, 97, 98, 105, 46,
      115, 101, 99, 117, 114, 105, 116, 121, 115, 97, 109, 112, 108, 101>>
\* ":SecurityModule:HMAC"
BINDING_SUFFIX ==
    <<58, 83, 101, 99, 117, 114, 105, 116, 121, 77, 111, 100, 117, 108, 101,
      58, 72, 77, 65, 67>>

generate_device_bound_key_simulation(dev, pkg) ==
    LET binding_data == dev \o <<58>> \o pkg \o BINDING_SUFFIX
    IN  Sha256(Raw(Utf8Encode(binding_data)))

compute_hmac_sha256(data, k) == HmacSha256(k, Raw(data))

\* Mutant of KeyPreview: the slice forgotten, key.hex() printed whole.
KeyPreview_whole(k) == ValText(Hex(k))

\* key.hex()[:16], as both generators print it.
KeyPreview(k) == Slice(ValText(Hex(k)), KEY_PREVIEW_LEN)

\* bytes.replace(old, new): every occurrence, left to right, not overlapping.
RECURSIVE Replace(_, _, _)
Replace(b, old, new) ==
    IF Len(b) < Len(old) THEN b
    ELSE IF SubSeq(b, 1, Len(old)) = old
    THEN new \o Replace(SubSeq(b, Len(old) + 1, Len(b)), old, new)
    ELSE <<Head(b)>> \o Replace(Tail(b), old, new)

\* Mutant of tampered_data: the two byte strings of the replacement swapped.
tampered_data_swapped(config_data) == Replace(config_data, ROOT_FALSE, ROOT_TRUE)

\* line 64: the tampered copy of the configuration.
tampered_data(config_data) == Replace(config_data, ROOT_TRUE, ROOT_FALSE)

\* a == b and a != b on two strings: equal lengths first, then character by
\* character from the left up to the first difference.  d is where two
\* different hex texts of the same length first differ (the hash decides).
StrCompare(op, a, b, d) ==
    [op |-> op, left |-> a, right |-> b, equal |-> (a = b),
     steps |-> IF a.len # b.len THEN 0 ELSE IF a = b THEN a.len ELSE d]

SecureArgs ==
    [argc |-> 0, outJson |-> FALSE, keySrc |-> "derived", keyArg |-> <<>>,
     envSet |-> FALSE, envVal |-> <<>>, keyFile |-> NoFile, outArg |-> "path"]

\* The except clauses of main: lines 77-82.
SecureFail(label) ==
    /\ console' = Append(console, Line(label, Lit))
    /\ exitCode' = 1
    /\ pc' = "done"

\* lines 35-39.
SecureRead ==
    /\ script = "secure" /\ pc = "read"
    /\ IF artifact.state # "ok"
       THEN SecureFail("artifact_error") /\ UNCHANGED raw
       ELSE /\ raw' = artifact.data
            /\ console' = Append(console, Line("read_bytes", Lit))
            /\ pc' = "gen_key"
            /\ UNCHANGED exitCode
    /\ UNCHANGED <<script, args, artifact, outFile, key, sig, hasher, hashes,
                   cmps, mods, readSize>>

\* lines 41-43.
SecureGenKey ==
    /\ script = "secure" /\ pc = "gen_key"
    /\ key' = generate_device_bound_key_simulation(device_id, package_name)
    /\ console' = Append(console, Line("key_preview", KeyPreview(key')))
    /\ pc' = "compute"
    /\ UNCHANGED <<script, exitCode, args, artifact, outFile, raw, sig, hasher,
                   hashes, cmps, mods, readSize>>

\* lines 45-47.
SecureCompute ==
    /\ script = "secure" /\ pc = "compute"
    /\ sig' = [done |-> TRUE, tag |-> compute_hmac_sha256(raw, key)]
    /\ console' = Append(console,
                         Line("signature_preview",
                              Slice(TagText(sig'.tag), SIG_PREVIEW_LEN)))
    /\ pc' = "write"
    /\ UNCHANGED <<script, exitCode, args, artifact, outFile, key, raw, hasher,
                   hashes, cmps, mods, readSize>>

\* lines 49-53.
SecureWrite ==
    /\ script = "secure" /\ pc = "write"
    /\ outFile' = [state |-> "written", fmt |-> "bare",
                   sig |-> TagText(sig.tag), hash |-> Lit]
    /\ console' = Append(console, Line("saved", Lit))
    /\ pc' = "verify"
    /\ UNCHANGED <<script, exitCode, args, artifact, key, raw, sig, hasher,
                   hashes, cmps, mods, readSize>>

\* lines 55-61.
SecureVerify ==
    /\ script = "secure" /\ pc = "verify"
    /\ \E d \in 1..(2 * DIGEST_SIZE) :
         LET expected_signature == TagText(compute_hmac_sha256(raw, key))
             c == StrCompare("==", TagText(sig.tag), expected_signature, d)
         IN  /\ cmps' = Append(cmps, c)
             /\ IF c.equal
                THEN /\ console' = Append(console, Line("verify_ok", Lit))
                     /\ pc' = "tamper"
                     /\ UNCHANGED exitCode
                ELSE SecureFail("selftest_failed")
    /\ UNCHANGED <<script, args, artifact, outFile, key, raw, sig, hasher,
                   hashes, mods, readSize>>

\* lines 63-70.
SecureTamper ==
    /\ script = "secure" /\ pc = "tamper"
    /\ \E d \in 1..(2 * DIGEST_SIZE) :
         LET tampered_signature ==
                 TagText(compute_hmac_sha256(tampered_data(raw), key))
             c == StrCompare("!=", tampered_signature, TagText(sig.tag), d)
         IN  /\ cmps' = Append(cmps, c)
             /\ IF ~c.equal
                THEN /\ console' = Append(console, Line("tamper_ok", Lit))
                     /\ pc' = "summary"
                     /\ UNCHANGED exitCode
                ELSE SecureFail("selftest_failed")
    /\ UNCHANGED <<script, args, artifact, outFile, key, raw, sig, hasher,
                   hashes, mods, readSize>>

\* lines 72-75, and the return from main.
SecureSummary ==
    /\ script = "secure" /\ pc = "summary"
    /\ console' = console \o <<Line("completed", Lit), Line("device_id", Lit),
                                Line("package", Lit),
                                Line("signature", TagText(sig.tag))>>
    /\ exitCode' = 0
    /\ pc' = "done"
    /\ UNCHANGED <<script, args, artifact, outFile, key, raw, sig, hasher,
                   hashes, cmps, mods, readSize>>

---------------------------------------------------------------------------
(* scripts/generate_apk_hmac.py *)

\* generate_secure_key: n stands for what secrets.token_hex and time.time
\* return; the string built from them is one character no file holds.
generate_secure_key(n) ==
    LET combined == <<256 + n>>
    IN  Sha256(Raw(Utf8Encode(combined)))

\* f.read(size) at offset pos of a file holding data.
ReadChunk(data, pos, size) ==
    IF pos >= Len(data) THEN <<>>
    ELSE SubSeq(data, pos + 1, Min(pos + size, Len(data)))

\* Mutant of HashUpdate: a new hash object for every chunk.
HashUpdate_restart(absorbed, chunk) == chunk

\* sha256_hash.update(chunk)
HashUpdate(absorbed, chunk) == absorbed \o chunk

\* sha256_hash.hexdigest()
HexDigest(absorbed) == Hex(Sha256(Raw(absorbed)))

\* Mutant of generate_hmac_signature: the tag over the file's bytes.
generate_hmac_signature_raw(k, apk_hash) == HmacSha256(k, Raw(apk_hash.data))

\* generate_hmac_signature, lines 56-61: the tag over the hex digest's text.
generate_hmac_signature(k, apk_hash) == HmacSha256(k, EncodeText(apk_hash))

\* line 126: apk_hash = calculate_apk_hash(apk_path)
BindFirst(h, digest) == [first |-> digest, apk_hash |-> digest]

\* Mutant of Rebind: the digest returned with the tag is dropped.
Rebind_dropped(h, digest) == h

\* line 131: hmac_signature, apk_hash = generate_hmac_signature(apk_path, key)
Rebind(h, digest) == [h EXCEPT !.apk_hash = digest]

\* create_signature_data and save_signature_data: the structured record.
save_signature_data(hmac_signature, apk_hash) ==
    [state |-> "written", fmt |-> "json",
     sig |-> TagText(hmac_signature), hash |-> ValText(apk_hash)]

\* save_signature_only: the bare tag.
save_signature_only(hmac_signature) ==
    [state |-> "written", fmt |-> "bare",
     sig |-> TagText(hmac_signature), hash |-> Lit]

ApkArgs ==
    [argc : {0, 1}, outJson : {FALSE}, keySrc : {"generated"}, keyArg : {<<>>},
     envSet : {FALSE}, envVal : {<<>>}, keyFile : {NoFile}, outArg : {"path"}]
    \cup
    [argc : {2}, outJson : BOOLEAN, keySrc : {"generated"}, keyArg : {<<>>},
     envSet : {FALSE}, envVal : {<<>>}, keyFile : {NoFile}, outArg : {"path"}]

ApkData == SeqsUpTo({0, 1}, MaxApkLen)

ApkFiles ==
    {NoFile} \cup [state : {"unreadable", "ok"}, data : ApkData]

\* The except clause of main, lines 156-158, and the exits before the try.
ApkFail(labels) ==
    /\ console' = console \o [i \in DOMAIN labels |-> Line(labels[i], Lit)]
    /\ exitCode' = 1
    /\ pc' = "done"

\* lines 96-116.
ApkCheckArgs ==
    /\ script = "apk" /\ pc = "check_args"
    /\ IF args.argc < 1 THEN ApkFail(<<"usage", "usage_line">>)
       ELSE IF artifact.state = "missing" THEN ApkFail(<<"artifact_error">>)
       ELSE /\ console' = console \o <<Line("generating", Lit),
                                       Line("output_file", Lit)>>
            /\ pc' = "gen_key"
            /\ UNCHANGED exitCode
    /\ UNCHANGED <<script, args, artifact, outFile, key, raw, sig, hasher,
                   hashes, cmps, mods, readSize>>

\* lines 119-122.
ApkGenKey ==
    /\ script = "apk" /\ pc = "gen_key"
    /\ \E n \in 1..MaxNonce : key' = generate_secure_key(n)
    /\ console' = console \o <<Line("generating_key", Lit),
                               Line("key_preview", KeyPreview(key'))>>
    /\ pc' = "hash1_open"
    /\ UNCHANGED <<script, exitCode, args, artifact, outFile, raw, sig, hasher,
                   hashes, cmps, mods, readSize>>

\* calculate_apk_hash, lines 42-44: a new hash object, the file opened.
\* The caller's print before the call (line 125, line 130) is `announce`.
HashOpen(announce, reading) ==
    IF artifact.state # "ok"
    THEN ApkFail(<<announce, "artifact_error">>) /\ UNCHANGED hasher
    ELSE /\ hasher' = [pos |-> 0, absorbed |-> <<>>]
         /\ console' = Append(console, Line(announce, Lit))
         /\ pc' = reading
         /\ UNCHANGED exitCode

\* line 125, then line 126 into calculate_apk_hash (lines 42-44).
ApkHash1Open ==
    /\ script = "apk" /\ pc = "hash1_open"
    /\ HashOpen("calculating", "hash1_read")
    /\ UNCHANGED <<script, args, artifact, outFile, key, raw, sig, hashes,
                   cmps, mods, readSize>>

\* calculate_apk_hash, lines 46-49, called from line 126; at its end line 127.
ApkHash1Read ==
    /\ script = "apk" /\ pc = "hash1_read"
    /\ LET chunk == ReadChunk(artifact.data, hasher.pos, readSize)
       IN  IF chunk # <<>>
           THEN /\ hasher' = [pos |-> hasher.pos + Len(chunk),
                              absorbed |-> HashUpdate(hasher.absorbed, chunk)]
                /\ UNCHANGED <<hashes, console, pc>>
           ELSE /\ hashes' = BindFirst(hashes, HexDigest(hasher.absorbed))
                /\ console' = Append(console,
                       Line("apk_hash_preview",
                            Slice(ValText(hashes'.apk_hash), APK_PREVIEW_LEN)))
                /\ pc' = "hash2_open"
                /\ UNCHANGED hasher
    /\ UNCHANGED <<script, exitCode, args, artifact, outFile, key, raw, sig,
                   cmps, mods, readSize>>

\* line 130, then line 131 into generate_hmac_signature and calculate_apk_hash.
ApkHash2Open ==
    /\ script = "apk" /\ pc = "hash2_open"
    /\ HashOpen("generating_signature", "hash2_read")
    /\ UNCHANGED <<script, args, artifact, outFile, key, raw, sig, hashes,
                   cmps, mods, readSize>>

\* calculate_apk_hash called from generate_hmac_signature (line 54), the tag
\* (lines 57-63), and back in main lines 131-132.
ApkHash2Read ==
    /\ script = "apk" /\ pc = "hash2_read"
    /\ LET chunk == ReadChunk(artifact.data, hasher.pos, readSize)
       IN  IF chunk # <<>>
           THEN /\ hasher' = [pos |-> hasher.pos + Len(chunk),
                              absorbed |-> HashUpdate(hasher.absorbed, chunk)]
                /\ UNCHANGED <<hashes, sig, console, pc>>
           ELSE LET apk_hash == HexDigest(hasher.absorbed)
                    hmac_signature == generate_hmac_signature(key, apk_hash)
                IN  /\ hashes' = Rebind(hashes, apk_hash)
                    /\ sig' = [done |-> TRUE, tag |-> hmac_signature]
                    /\ console' = Append(console,
                           Line("signature_preview",
                                Slice(TagText(hmac_signature), APK_PREVIEW_LEN)))
                    /\ pc' = "save"
                    /\ UNCHANGED hasher
    /\ UNCHANGED <<script, exitCode, args, artifact, outFile, key, raw, cmps,
                   mods, readSize>>

\* lines 134-141.
ApkSave ==
    /\ script = "apk" /\ pc = "save"
    /\ outFile' = IF args.outJson
                  THEN save_signature_data(sig.tag, hashes.apk_hash)
                  ELSE save_signature_only(sig.tag)
    /\ console' = Append(console, Line("saved", Lit))
    /\ pc' = "summary"
    /\ UNCHANGED <<script, exitCode, args, artifact, key, raw, sig, hasher,
                   hashes, cmps, mods, readSize>>

\* lines 143-154; os.path.getsize raises when the file is gone.
ApkSummary ==
    /\ script = "apk" /\ pc = "summary"
    /\ IF artifact.state = "missing"
       THEN /\ console' = console \o <<Line("summary", Lit), Line("apk_file", Lit),
                                       Line("stat_error", Lit)>>
            /\ exitCode' = 1
       ELSE /\ console' = console \o
                   <<Line("summary", Lit), Line("apk_file", Lit),
                     Line("apk_size", Lit),
                     Line("apk_hash", ValText(hashes.apk_hash)),
                     Line("signature", TagText(sig.tag)),
                     Line("key_type", Lit), Line("timestamp", Lit),
                     Line("output_file", Lit), Line("success", Lit),
                     Line("hint", Lit)>>
            /\ exitCode' = 0
    /\ pc' = "done"
    /\ UNCHANGED <<script, args, artifact, outFile, key, raw, sig, hasher,
                   hashes, cmps, mods, readSize>>

\* Another process rewrites the package file in place, removes it (an open
\* file keeps its bytes) or takes the read permission away.
ApkModify ==
    /\ script = "apk" /\ pc # "done"
    /\ mods < MaxMods
    /\ artifact.state # "missing"
    /\ \/ \E d \in ApkData \ {artifact.data} :
              artifact' = [artifact EXCEPT !.data = d]
       \/ \E s \in FileStates \ {artifact.state} :
              artifact' = [artifact EXCEPT !.state = s]
    /\ mods' = mods + 1
    /\ UNCHANGED <<script, pc, exitCode, args, outFile, console, key, raw, sig,
                   hasher, hashes, cmps, readSize>>

---------------------------------------------------------------------------
(* The runs *)

InitCommon ==
    /\ exitCode = -1
    /\ console = <<>>
    /\ key = NoVal
    /\ raw = <<>>
    /\ sig = [done |-> FALSE, tag |-> NoTag]
    /\ hasher = [pos |-> 0, absorbed |-> <<>>]
    /\ hashes = [first |-> NoVal, apk_hash |-> NoVal]
    /\ cmps = <<>>
    /\ mods = 0

InitConfig ==
    /\ script = "config"
    /\ pc = "load_key"
    /\ args \in ConfigArgs
    /\ artifact \in ConfigFiles

InitSecure ==
    /\ script = "secure"
    /\ pc = "read"
    /\ args = SecureArgs
    /\ artifact \in ConfigFiles

InitApk ==
    /\ script = "apk"
    /\ pc = "check_args"
    /\ args \in ApkArgs
    /\ artifact \in ApkFiles

Init ==
    /\ InitCommon
    /\ readSize = READ_SIZE
    /\ outFile \in {Absent, Old}
    /\ (InitConfig \/ InitSecure \/ InitApk)

Next ==
    \/ ConfigLoadKey
    \/ ConfigLoadConfig
    \/ ConfigSign
    \/ ConfigWrite
    \/ SecureRead
    \/ SecureGenKey
    \/ SecureCompute
    \/ SecureWrite
    \/ SecureVerify
    \/ SecureTamper
    \/ SecureSummary
    \/ ApkCheckArgs
    \/ ApkGenKey
    \/ ApkHash1Open
    \/ ApkHash1Read
    \/ ApkHash2Open
    \/ ApkHash2Read
    \/ ApkSave
    \/ ApkSummary
    \/ ApkModify

Spec == Init /\ [][Next]_vars

---------------------------------------------------------------------------
(* calculate_apk_hash as a function of the file and the read size *)

MkFile(n, s) == [i \in 1..n |-> (i + s) % 251]

DigestInputs ==
    {<<MkFile(n, s), r>> : n \in 0..MaxSmallLen, s \in 0..MaxSeed,
                           r \in 1..MaxSmallRead}
    \cup
    {<<MkFile(n, 0), READ_SIZE>> :
        n \in {0, 1, READ_SIZE - 1, READ_SIZE + 1}
              \cup {k * READ_SIZE : k \in 1..MaxChunks}}

InitDigest ==
    /\ InitCommon
    /\ outFile = Absent
    /\ script = "apk"
    /\ pc = "hash1_open"
    /\ args \in {a \in ApkArgs : a.argc = 1}
    /\ \E in \in DigestInputs :
          /\ artifact = [state |-> "ok", data |-> in[1]]
          /\ readSize = in[2]

NextDigest == ApkHash1Open \/ ApkHash1Read

\* The read loop runs in one thread and every read returns.
SpecDigest == InitDigest /\ [][NextDigest]_vars /\ WF_vars(NextDigest)

---------------------------------------------------------------------------
(* The claims *)

Exited == pc = "done"

Printed(label) == \E i \in DOMAIN console : console[i].label = label

\* A tag was printed in full.
TagPrinted ==
    \E i \in DOMAIN console :
        console[i].text.src = "tag" /\ console[i].text.len = 2 * DIGEST_SIZE

AllWhitespace(b) == \A i \in DOMAIN b : b[i] \in Whitespace

\* p occurs in b.
Contains(b, p) ==
    \E i \in 1..(Len(b) - Len(p) + 1) : SubSeq(b, i, i + Len(p) - 1) = p

EnvKeyRun ==
    script = "config" /\ args.keySrc = "env"
    /\ (~args.envSet \/ args.envVal = <<>>)

\* C1: with --key-env NAME and NAME unset or empty, the run goes no further
\* than loading the key: it ends with a non-zero status (2), no tag is ever
\* computed (with an empty key or any other), nothing is written to the
\* --out destination and no signature is printed.
C1_EnvKeyMissingFails ==
    EnvKeyRun =>
        /\ pc \in {"load_key", "done"}
        /\ key = NoVal
        /\ ~sig.done
        /\ outFile.state # "written"
        /\ \A i \in DOMAIN console : console[i].text.src # "tag"
        /\ Exited => exitCode = 2

\* C1's case: the variable is set to the empty string and the run has ended.
C1_Witness ==
    /\ EnvKeyRun /\ args.envSet /\ args.outArg = "path"
    /\ artifact.state = "ok"
    /\ Exited /\ exitCode = 2

KeyFileUnusable ==
    script = "config" /\ args.keySrc = "file"
    /\ \/ args.keyFile.state = "missing"
       \/ args.keyFile.state = "ok" /\ AllWhitespace(args.keyFile.data)

\* C2: with --key-file PATH and the file missing, or empty once its
\* whitespace is trimmed, the run ends with a non-zero status and no tag is
\* computed, written or printed: never a tag under a zero-length key.
C2_KeyFileUnusableFails ==
    KeyFileUnusable =>
        /\ ~sig.done
        /\ outFile.state # "written"
        /\ ~TagPrinted
        /\ Exited => exitCode > 0

\* The artifact could not be read: missing or unreadable when it was opened.
ArtifactReadFailed == Printed("artifact_error")

\* No usable key, as section 4.2 of the specification defines it.
KeyUnavailable == EnvKeyRun \/ KeyFileUnusable
                  \/ (script = "config" /\ args.keySrc = "file"
                      /\ args.keyFile.state = "unreadable")

\* C3: in all three scripts a run whose artifact could not be read, or whose
\* key could not be obtained, ends with a non-zero status and the signature
\* destination untouched; and a run ends with status 0 only after the tag
\* was computed over the artifact as read and written or printed in full.
C3_NoPartialResults ==
    Exited =>
        /\ (ArtifactReadFailed \/ KeyUnavailable) =>
               exitCode > 0 /\ outFile.state # "written"
        /\ exitCode = 0 =>
               /\ sig.done
               /\ sig.tag.msg.data = (IF script = "apk" THEN hasher.absorbed
                                      ELSE artifact.data)
               /\ \/ outFile.state = "written" /\ outFile.sig = TagText(sig.tag)
                  \/ TagPrinted

\* C4: two tags of equal length are compared in as many steps as they have
\* characters, wherever they first differ.
C4_ConstantTimeCompare ==
    \A i \in DOMAIN cmps :
        cmps[i].left.len = cmps[i].right.len => cmps[i].steps = cmps[i].left.len

\* C5: calculate_apk_hash ends for every file and every read size, what it
\* has absorbed is at every moment the file up to the read position (each
\* byte once, in file order), and the digest it returns is the digest of the
\* whole file hashed in one step.
C5_ChunkedDigest ==
    /\ [](/\ hasher.pos = Len(hasher.absorbed)
          /\ hasher.pos <= Len(artifact.data)
          /\ hasher.absorbed = SubSeq(artifact.data, 1, hasher.pos))
    /\ [](hashes.first # NoVal =>
             /\ hasher.absorbed = artifact.data
             /\ hashes.first = Hex(Sha256(Raw(artifact.data))))
    /\ <>(hashes.first # NoVal)

\* C5's case: the program's read size, a file of several full chunks.
C5_Witness ==
    /\ hashes.first # NoVal
    /\ readSize = READ_SIZE
    /\ Len(artifact.data) = MaxChunks * READ_SIZE

KeyFromFile == script = "config" /\ args.keySrc = "file" /\ key # NoVal

\* C6 as stated: the key is the file with only its trailing whitespace
\* removed, leading whitespace kept.
C6_OnlyTrailingTrimmed ==
    KeyFromFile =>
        LET f == args.keyFile.data
            k == key.data
        IN  /\ Len(k) <= Len(f)
            /\ k = SubSeq(f, 1, Len(k))
            /\ \A i \in (Len(k) + 1)..Len(f) : f[i] \in Whitespace
            /\ k = <<>> \/ k[Len(k)] \notin Whitespace

\* C6, amended: the key is the file with the whitespace bytes at both ends
\* removed; the bytes between the first and the last non-whitespace byte,
\* whitespace included, are kept unchanged and in place.
C6_BothEndsTrimmed ==
    KeyFromFile =>
        LET f == args.keyFile.data
            k == key.data
        IN  /\ key.form = <<>>
            /\ \E lead \in 0..Len(f) :
                  /\ lead + Len(k) <= Len(f)
                  /\ k = SubSeq(f, lead + 1, lead + Len(k))
                  /\ \A i \in 1..lead : f[i] \in Whitespace
                  /\ \A i \in (lead + Len(k) + 1)..Len(f) : f[i] \in Whitespace
            /\ k = <<>> \/ (k[1] \notin Whitespace /\ k[Len(k)] \notin Whitespace)

\* C6's case: a key file that starts with whitespace, its key used for a tag.
C6_Witness ==
    /\ KeyFromFile
    /\ Len(key.data) = 2
    /\ Len(args.keyFile.data) > 2
    /\ args.keyFile.data[1] \in Whitespace
    /\ sig.done

\* C7: every tag of the apk script is the HMAC over the UTF-8 bytes of the
\* hex digest of the bytes read, every tag of the two configuration scripts
\* is the HMAC over the raw bytes of the file, whatever the content, the key
\* source and the output; and the tag written or printed is that tag.
C7_ProfileFixed ==
    sig.done =>
        /\ script = "apk" =>
               sig.tag.msg = [data |-> hasher.absorbed,
                              form |-> <<"sha256", "hex", "utf8">>]
        /\ script \in {"config", "secure"} =>
               sig.tag.msg = [data |-> artifact.data, form |-> <<>>]
        /\ sig.tag.key = key
        /\ outFile.state = "written" => outFile.sig.tag = sig.tag
        /\ \A i \in DOMAIN console :
               console[i].text.src = "tag" => console[i].text.tag = sig.tag

\* C7's case: the apk script has written its tag.
C7_Witness ==
    /\ script = "apk" /\ sig.done /\ outFile.state = "written"
    /\ hasher.absorbed # <<>>

\* A text made of the key's bytes or of their hex form.
KeyText(t) == t.src = "val" /\ key # NoVal /\ t.val \in {key, Hex(key)}

\* C8: no printed line and no written file holds the key; the only text made
\* of key bytes is the preview the two generators print, the first 16 of the
\* 64 hex characters of the 32-byte key.
C8_KeyNeverInFull ==
    /\ \A i \in DOMAIN console :
          LET l == console[i] IN
          /\ KeyText(l.text) =>
                /\ l.label = "key_preview"
                /\ script \in {"apk", "secure"}
                /\ l.text.len = KEY_PREVIEW_LEN
                /\ ValLen(key) = DIGEST_SIZE
                /\ l.text.len < ValLen(Hex(key))
          /\ l.label = "key_preview" => KeyText(l.text)
    /\ ~KeyText(outFile.sig)
    /\ ~KeyText(outFile.hash)

\* C8's case: the apk script ran to its end and wrote the structured record.
C8_Witness ==
    /\ script = "apk" /\ Exited /\ exitCode = 0
    /\ outFile.fmt = "json"
    /\ Printed("key_preview")

StructuredRecord ==
    script = "apk" /\ outFile.state = "written" /\ outFile.fmt = "json"

\* C9: in every structured record the apk script writes, apk_hash is the
\* digest of the second read, hmac_signature is the HMAC of the key over the
\* UTF-8 text of that very apk_hash, the summary prints the same digest, and
\* a first read of different bytes leaves no trace in the record.
C9_RecordFromSecondRead ==
    StructuredRecord =>
        /\ outFile.hash = ValText(Hex(Sha256(Raw(hasher.absorbed))))
        /\ outFile.sig = TagText(HmacSha256(key, EncodeText(outFile.hash.val)))
        /\ hashes.first.data # hasher.absorbed => outFile.hash.val # hashes.first
        /\ \A i \in DOMAIN console :
               console[i].label = "apk_hash" => console[i].text = outFile.hash

\* C9's case: the file changed between the two reads and the run succeeded.
C9_Witness ==
    /\ StructuredRecord
    /\ hashes.first.data # hasher.absorbed
    /\ Exited /\ exitCode = 0

\* C10: generate_secure_signature writes the signature file before its two
\* self-tests and never undoes it: a run over a configuration without the
\* bytes "rootDetection": true ends with status 1 and the file holding the
\* new tag, and a run ends with status 0 only if the configuration held them.
C10_WrittenBeforeSelfTest ==
    script = "secure" =>
        /\ cmps # <<>> \/ pc \in {"verify", "tamper", "summary"} =>
               /\ outFile.state = "written"
               /\ outFile.sig = TagText(HmacSha256(key, Raw(artifact.data)))
        /\ pc \in {"read", "gen_key", "compute", "write"} => cmps = <<>>
        /\ (Exited /\ artifact.state = "ok"
                   /\ ~Contains(artifact.data, ROOT_TRUE)) =>
               /\ exitCode = 1
               /\ outFile.state = "written"
               /\ Len(cmps) = 2
        /\ (Exited /\ exitCode = 0) => Contains(artifact.data, ROOT_TRUE)

\* C10's case: a configuration that says "rootDetection": false.
C10_Witness ==
    /\ script = "secure" /\ Exited /\ exitCode = 1
    /\ Contains(artifact.data, ROOT_FALSE)
    /\ outFile.state = "written"

=============================================================================
